---- MODULE Spec2Model ----
(***************************************************************************)
(* A model of ollama_tool_calling.py: the tool schema builder, the         *)
(* extraction of tool calls from a chat response (structured list or JSON  *)
(* embedded in the content), the dispatch through the function registry,   *)
(* and the ConversationLogger that rewrites its file on every entry.       *)
(*                                                                         *)
(* Conventions.  A decoded JSON value (equally a Python value) is a record *)
(* tagged by k: null (Python None), bool, num, str, arr, obj.  A string is *)
(* a sequence of chunks of text, cut so that the words the code probes for *)
(* ("name", "arguments") are chunks of their own: Python's substring test  *)
(* is then the occurrence of a chunk.  A text to be parsed is a sequence   *)
(* of JSON tokens.                                                         *)
(***************************************************************************)
EXTENDS Integers, Sequences, FiniteSets, TLC

VARIABLES
    pc,                \* position of main: which statement runs next
    example,           \* 1 or 2: the example main is working on
    response,          \* what chat_with_tools returned for this example
    idx,               \* position of the loop over message['tool_calls']
    tool_calls_found,  \* main's flag of the same name
    outcomes,          \* what was printed for the calls of this example, in order
    content_parsed,    \* json.loads(content) was attempted in this example
    no_calls_reported, \* the "No tool calls were made" report was printed
    invoked,           \* names of the registered functions invoked in this example
    posts,             \* number of POST /api/chat requests issued in this example
    tool_definitions,  \* the tool definitions built by the last chat_with_tools
    conversation_log,  \* ConversationLogger.conversation_log
    disk,              \* content of the log file
    lpc,               \* position inside log_message: idle, open, dump
    warnings,          \* number of "Failed to write to log file" warnings
    last_write,        \* how the last finished log_message write ended
    disk_at_call,      \* content of the log file when the last log_message began
    session_id,        \* ConversationLogger.session_id
    tools,             \* the functions handed to chat_with_tools
    script,            \* the script whose main runs
    requests,          \* the HTTP requests issued so far, each with how it ended
    prompt_idx,        \* test_ollama main: position in test_prompts
    lines,             \* test_streaming_chat: the lines of the response body
    line_idx,          \* test_streaming_chat: the line iter_lines yields next
    full_response,     \* test_streaming_chat: the accumulated content
    processed          \* test_streaming_chat: the lines the loop body ran on, in order

vars == <<pc, example, response, idx, tool_calls_found, outcomes, content_parsed,
          no_calls_reported, invoked, posts, tool_definitions, conversation_log,
          disk, lpc, warnings, last_write, disk_at_call, session_id, tools,
          script, requests, prompt_idx, lines, line_idx, full_response, processed>>

----------------------------------------------------------------------------
(* Bounds of the model *)

\* longest structured tool_calls list of a response
MaxCalls == 2
\* number of log file writes the environment lets fail in one run
MaxWriteFailures == 1
\* entries of the array an earlier run left in the log file
MaxOldEntries == 2
\* longest list of functions handed to the schema builder
MaxTools == 2

----------------------------------------------------------------------------
(* JSON / Python values *)

JNull == [k |-> "null"]
JBool(b) == [k |-> "bool", b |-> b]
JNum(n) == [k |-> "num", n |-> n]
JStr(chunks) == [k |-> "str", s |-> chunks]
JArr(items) == [k |-> "arr", items |-> items]
JObj(keys, vals) == [k |-> "obj", keys |-> keys, vals |-> vals]
Word(w) == JStr(<<w>>)
EmptyDict == JObj(<<>>, <<>>)

\* Python truthiness of a value
Truthy(v) ==
    CASE v.k = "null" -> FALSE
      [] v.k = "bool" -> v.b
      [] v.k = "num" -> v.n # 0
      [] v.k = "str" -> v.s # <<>>
      [] v.k = "arr" -> v.items # <<>>
      [] v.k = "obj" -> v.keys # <<>>

\* dict lookup: the last member with the key wins, as json.loads builds the dict
HasKey(o, key) == \E i \in 1..Len(o.keys) : o.keys[i] = key
Lookup(o, key) ==
    LET i == CHOOSE j \in 1..Len(o.keys) :
                 o.keys[j] = key /\ \A m \in (j+1)..Len(o.keys) : o.keys[m] # key
    IN  o.vals[i]
KeySet(o) == {o.keys[i] : i \in 1..Len(o.keys)}

\* str(v) as an f-string formats it, in chunks
Format(v) ==
    CASE v.k = "null" -> <<"None">>
      [] v.k = "bool" -> IF v.b THEN <<"True">> ELSE <<"False">>
      [] v.k = "num" -> <<ToString(v.n)>>
      [] v.k = "str" -> v.s
      [] v.k = "arr" -> <<"[...]">>
      [] v.k = "obj" -> <<"{...}">>
      [] v.k = "frac" -> <<ToString(v.num), "/", ToString(v.den)>>

----------------------------------------------------------------------------
(* json.loads on a sequence of tokens *)

TLBrace == [t |-> "{"]
TRBrace == [t |-> "}"]
TLBracket == [t |-> "["]
TRBracket == [t |-> "]"]
TColon == [t |-> ":"]
TComma == [t |-> ","]
TJunk == [t |-> "junk"]
TLit(v) == [t |-> "lit", v |-> v]

ParseFail == [ok |-> FALSE, val |-> JNull, next |-> 0]
ParseOk(v, next) == [ok |-> TRUE, val |-> v, next |-> next]

RECURSIVE ParseValue(_, _), ParseElems(_, _, _), ParseMembers(_, _, _, _)
ParseValue(toks, i) ==
    IF i > Len(toks) THEN ParseFail
    ELSE LET tok == toks[i] IN
         CASE tok.t = "lit" -> ParseOk(tok.v, i + 1)
           [] tok.t = "[" ->
                IF i + 1 <= Len(toks) /\ toks[i + 1].t = "]"
                THEN ParseOk(JArr(<<>>), i + 2)
                ELSE ParseElems(toks, i + 1, <<>>)
           [] tok.t = "{" ->
                IF i + 1 <= Len(toks) /\ toks[i + 1].t = "}"
                THEN ParseOk(EmptyDict, i + 2)
                ELSE ParseMembers(toks, i + 1, <<>>, <<>>)
           [] OTHER -> ParseFail

ParseElems(toks, i, acc) ==
    LET r == ParseValue(toks, i) IN
    IF ~r.ok \/ r.next > Len(toks) THEN ParseFail
    ELSE LET sep == toks[r.next]
             items == Append(acc, r.val) IN
         CASE sep.t = "," -> ParseElems(toks, r.next + 1, items)
           [] sep.t = "]" -> ParseOk(JArr(items), r.next + 1)
           [] OTHER -> ParseFail

ParseMembers(toks, i, keys, vals) ==
    IF i + 1 > Len(toks) THEN ParseFail
    ELSE IF ~(toks[i].t = "lit" /\ toks[i].v.k = "str" /\ toks[i + 1].t = ":")
    THEN ParseFail
    ELSE LET r == ParseValue(toks, i + 2) IN
         IF ~r.ok \/ r.next > Len(toks) THEN ParseFail
         ELSE LET sep == toks[r.next]
                  ks == Append(keys, toks[i].v.s)
                  vs == Append(vals, r.val) IN
              CASE sep.t = "," -> ParseMembers(toks, r.next + 1, ks, vs)
                [] sep.t = "}" -> ParseOk(JObj(ks, vs), r.next + 1)
                [] OTHER -> ParseFail

\* json.loads(content): a JSONDecodeError unless the whole text is one value
json_loads(toks) ==
    LET r == ParseValue(toks, 1) IN
    IF r.ok /\ r.next = Len(toks) + 1 THEN [ok |-> TRUE, val |-> r.val]
    ELSE [ok |-> FALSE, val |-> JNull]

----------------------------------------------------------------------------
(* The registered functions *)

\* what a call ends with: a return value, or an exception and its message
Returned(v) == [raised |-> FALSE, val |-> v, exc |-> "", msg |-> <<>>]
Raised(exc, msg) == [raised |-> TRUE, val |-> JNull, exc |-> exc, msg |-> msg]

IsNumber(v) == v.k \in {"num", "bool"}
NumOf(v) == IF v.k = "num" THEN v.n ELSE IF v.b THEN 1 ELSE 0
Abs(n) == IF n < 0 THEN -n ELSE n

\* a / b of two numbers, b # 0: exact, kept as a fraction when not whole
TrueDiv(a, b) ==
    IF Abs(a) % Abs(b) = 0
    THEN JNum((IF (a < 0) = (b < 0) THEN 1 ELSE -1) * (Abs(a) \div Abs(b)))
    ELSE [k |-> "frac", num |-> a, den |-> b]

RECURSIVE Repeat(_, _)
Repeat(seq, n) == IF n <= 0 THEN <<>> ELSE seq \o Repeat(seq, n - 1)

\* Python's a + b, a - b, a * b, a / b on decoded JSON values
PyAdd(a, b) ==
    CASE IsNumber(a) /\ IsNumber(b) -> Returned(JNum(NumOf(a) + NumOf(b)))
      [] a.k = "str" /\ b.k = "str" -> Returned(JStr(a.s \o b.s))
      [] a.k = "arr" /\ b.k = "arr" -> Returned(JArr(a.items \o b.items))
      [] OTHER -> Raised("TypeError", <<"unsupported operand type(s) for +">>)
PySub(a, b) ==
    IF IsNumber(a) /\ IsNumber(b) THEN Returned(JNum(NumOf(a) - NumOf(b)))
    ELSE Raised("TypeError", <<"unsupported operand type(s) for -">>)
PyMul(a, b) ==
    CASE IsNumber(a) /\ IsNumber(b) -> Returned(JNum(NumOf(a) * NumOf(b)))
      [] a.k = "str" /\ IsNumber(b) -> Returned(JStr(Repeat(a.s, NumOf(b))))
      [] IsNumber(a) /\ b.k = "str" -> Returned(JStr(Repeat(b.s, NumOf(a))))
      [] a.k = "arr" /\ IsNumber(b) -> Returned(JArr(Repeat(a.items, NumOf(b))))
      [] IsNumber(a) /\ b.k = "arr" -> Returned(JArr(Repeat(b.items, NumOf(a))))
      [] OTHER -> Raised("TypeError", <<"can't multiply">>)
PyDiv(a, b) ==
    IF IsNumber(a) /\ IsNumber(b) THEN Returned(TrueDiv(NumOf(a), NumOf(b)))
    ELSE Raised("TypeError", <<"unsupported operand type(s) for /">>)

calculate(operation, a, b) ==
    CASE operation = Word("add") -> PyAdd(a, b)
      [] operation = Word("subtract") -> PySub(a, b)
      [] operation = Word("multiply") -> PyMul(a, b)
      [] operation = Word("divide") ->
            IF IsNumber(b) /\ NumOf(b) = 0
            THEN Raised("ValueError", <<"Cannot divide by zero">>)
            ELSE PyDiv(a, b)
      [] OTHER -> Raised("ValueError", <<"Unknown operation: ">> \o Format(operation))

get_weather(location) ==
    Returned(JStr(<<"The weather in ">> \o Format(location)
                  \o <<" is sunny with a temperature of 22C">>))

\* main's registry: name -> function
available_functions == {"calculate", "get_weather"}

\* the declared parameters of a registered function, none with a default
Parameters(fname) ==
    IF fname = "calculate" THEN <<"operation", "a", "b">> ELSE <<"location">>

\* function_to_call(**func_args): the arguments must be a mapping whose keys
\* are exactly the declared parameters, or the call itself is a TypeError
Invoke(fname, func_args) ==
    LET params == Parameters(fname)
        arg(p) == Lookup(func_args, <<p>>) IN
    IF func_args.k # "obj"
    THEN Raised("TypeError", <<"argument after ** must be a mapping">>)
    ELSE IF \E i \in 1..Len(params) : ~HasKey(func_args, <<params[i]>>)
    THEN Raised("TypeError", <<"missing required positional argument">>)
    ELSE IF \E key \in KeySet(func_args) :
                \A i \in 1..Len(params) : key # <<params[i]>>
    THEN Raised("TypeError", <<"got an unexpected keyword argument">>)
    ELSE IF fname = "calculate"
    THEN calculate(arg("operation"), arg("a"), arg("b"))
    ELSE get_weather(arg("location"))

\* available_functions.get(func_name): a list or a dict cannot be hashed
Hashable(v) == v.k \notin {"arr", "obj"}
Registered(v) == v.k = "str" /\ Len(v.s) = 1 /\ v.s[1] \in available_functions

\* One dispatch, as both extraction paths do it: look the name up, call the
\* function with the arguments, catch what the call raises.
\*   kind = "result"   the function returned val
\*   kind = "error"    the call raised; msg is str(e)
\*   kind = "notfound" the name is not in the registry
\*   kind = "uncaught" the lookup itself raised TypeError (not caught)
Outcome(kind, name, args, val, msg) ==
    [kind |-> kind, name |-> name, args |-> args, val |-> val, msg |-> msg]
\* the mutation of Dispatch: what the call raises is not caught
DispatchNoCatch(func_name, func_args) ==
    IF ~Hashable(func_name)
    THEN Outcome("uncaught", func_name, func_args, JNull, <<"unhashable type">>)
    ELSE IF ~Registered(func_name)
    THEN Outcome("notfound", func_name, func_args, JNull,
                 <<"Function not found: ">> \o Format(func_name))
    ELSE LET r == Invoke(func_name.s[1], func_args) IN
         IF r.raised
         THEN Outcome("uncaught", func_name, func_args, JNull, r.msg)
         ELSE Outcome("result", func_name, func_args, r.val, <<>>)
Dispatch(func_name, func_args) ==
    IF ~Hashable(func_name)
    THEN Outcome("uncaught", func_name, func_args, JNull, <<"unhashable type">>)
    ELSE IF ~Registered(func_name)
    THEN Outcome("notfound", func_name, func_args, JNull,
                 <<"Function not found: ">> \o Format(func_name))
    ELSE LET r == Invoke(func_name.s[1], func_args) IN
         IF r.raised
         THEN Outcome("error", func_name, func_args, JNull, r.msg)
         ELSE Outcome("result", func_name, func_args, r.val, <<>>)

----------------------------------------------------------------------------
(* The tool schema builder (chat_with_tools, first part) *)

\* a function handed to chat_with_tools: its __name__, its __doc__ (None when
\* it has none) and its __annotations__ in order, the return annotation last
Fn(name, doc, annotations) == [name |-> name, doc |-> doc, annotations |-> annotations]
Ann(param, type) == [param |-> param, type |-> type]

CalculateFn ==
    Fn("calculate", Word("Perform basic mathematical operations"),
       <<Ann("operation", "str"), Ann("a", "float"), Ann("b", "float"),
         Ann("return", "float")>>)
GetWeatherFn ==
    Fn("get_weather", Word("Get weather information for a location (mock function)"),
       <<Ann("location", "str"), Ann("return", "str")>>)

\* the mutation of _get_json_type: bool falls through to the default
_get_json_type_no_bool(python_type) ==
    CASE python_type = "str" -> "string"
      [] python_type = "int" -> "integer"
      [] python_type = "float" -> "number"
      [] OTHER -> "string"
_get_json_type(python_type) ==
    CASE python_type = "str" -> "string"
      [] python_type = "int" -> "integer"
      [] python_type = "float" -> "number"
      [] python_type = "bool" -> "boolean"
      [] OTHER -> "string"

\* the annotations that are parameters: every one but 'return'
RECURSIVE ParamAnnotations(_)
ParamAnnotations(anns) ==
    IF anns = <<>> THEN <<>>
    ELSE IF Head(anns).param # "return"
         THEN <<Head(anns)>> \o ParamAnnotations(Tail(anns))
         ELSE ParamAnnotations(Tail(anns))

ToolDef(tool) ==
    LET ps == ParamAnnotations(tool.annotations) IN
    [type |-> "function",
     function |->
        [name |-> tool.name,
         description |-> IF Truthy(tool.doc) THEN tool.doc
                         ELSE JStr(<<"Function: ", tool.name>>),
         parameters |->
            [type |-> "object",
             properties |-> [i \in 1..Len(ps) |->
                                [name |-> ps[i].param,
                                 type |-> _get_json_type(ps[i].type),
                                 description |-> <<"Parameter ", ps[i].param>>]],
             required |-> [i \in 1..Len(ps) |-> ps[i].param]]]]

BuildToolDefinitions(fns) == [i \in 1..Len(fns) |-> ToolDef(fns[i])]

----------------------------------------------------------------------------
(* Extraction of a tool call from the content (main, "Also check if tool    *)
(* call is in content as JSON")                                            *)

\* Python's  word in d : key of a dict, substring of a str, element of a list;
\* a TypeError for a number, a boolean or None
Iterable(d) == d.k \in {"obj", "str", "arr"}
Contains(d, word) ==
    CASE d.k = "obj" -> HasKey(d, <<word>>)
      [] d.k = "str" -> \E i \in 1..Len(d.s) : d.s[i] = word
      [] d.k = "arr" -> \E i \in 1..Len(d.items) : d.items[i] = Word(word)
      [] OTHER -> FALSE

\* the test of line 316,  'name' in d and 'arguments' in d : "raise" when the
\* first membership test evaluated is a TypeError
HasNameAndArguments(d) ==
    IF ~Iterable(d) THEN "raise"
    ELSE IF Contains(d, "name") /\ Contains(d, "arguments") THEN "yes" ELSE "no"

\* What the content block does with a non-empty content.
\*   raised   an exception other than JSONDecodeError left the block
\*   found    tool_calls_found was set
\*   outcomes the dispatch of the call read from the content, if one was read
ContentResult(raised, found, outs) == [raised |-> raised, found |-> found, outcomes |-> outs]
\* the mutation of ExtractFromContent: the keys are read with defaults, as
\* the structured path reads them, instead of being required
ExtractFromContentLenient(content) ==
    LET r == json_loads(content) IN
    IF ~r.ok THEN ContentResult(FALSE, FALSE, <<>>)
    ELSE LET d == r.val IN
         IF d.k # "obj" THEN ContentResult(TRUE, FALSE, <<>>)
         ELSE LET name == IF HasKey(d, <<"name">>) THEN Lookup(d, <<"name">>) ELSE JNull
                  args == IF HasKey(d, <<"arguments">>) THEN Lookup(d, <<"arguments">>)
                          ELSE EmptyDict
                  o == Dispatch(name, args) IN
              IF o.kind = "uncaught" THEN ContentResult(TRUE, FALSE, <<o>>)
              ELSE ContentResult(FALSE, TRUE, <<o>>)
ExtractFromContent(content) ==
    LET r == json_loads(content) IN
    IF ~r.ok THEN ContentResult(FALSE, FALSE, <<>>)
    ELSE LET d == r.val
             t == HasNameAndArguments(d) IN
         IF t = "raise" THEN ContentResult(TRUE, FALSE, <<>>)
         ELSE IF t = "no" THEN ContentResult(FALSE, FALSE, <<>>)
         ELSE IF d.k # "obj" THEN ContentResult(TRUE, FALSE, <<>>)
         ELSE LET o == Dispatch(Lookup(d, <<"name">>), Lookup(d, <<"arguments">>)) IN
              IF o.kind = "uncaught" THEN ContentResult(TRUE, FALSE, <<o>>)
              ELSE ContentResult(FALSE, TRUE, <<o>>)

----------------------------------------------------------------------------
(* Inputs: what the server may answer *)

Str(w) == TLit(Word(w))
Num(n) == TLit(JNum(n))
CalcArgs(op, a, b) ==
    JObj(<<<<"operation">>, <<"a">>, <<"b">>>>, <<Word(op), JNum(a), JNum(b)>>)
\* the text of the object {"name": <name tokens>, "arguments": <args tokens>}
CallText(nameToks, argToks) ==
    <<TLBrace, Str("name"), TColon>> \o nameToks
        \o <<TComma, Str("arguments"), TColon>> \o argToks \o <<TRBrace>>
CalcText(op, a, b) ==
    <<TLBrace, Str("operation"), TColon, Str(op), TComma, Str("a"), TColon, Num(a),
      TComma, Str("b"), TColon, Num(b), TRBrace>>

\* contents that are not an embedded call
PlainContents ==
    { <<TJunk, TJunk>>,                                       \* not json
      <<Num(5)>>,                                             \* 5
      <<TLit(JNull)>>,                                        \* null
      <<TLit(JBool(TRUE))>>,                                  \* true
      <<Str("hello")>>,                                       \* "hello"
      <<TLit(JStr(<<"the ", "name", " and ", "arguments">>))>>,
      <<TLBracket, TRBracket>>,                               \* []
      <<TLBracket, Str("name"), TComma, Str("arguments"), TRBracket>>,
      <<TLBrace, TRBrace>>,                                   \* {}
      <<TLBrace, Str("name"), TColon, Str("calculate"), TRBrace>>,
      <<TLBrace, Str("arguments"), TColon, TLBrace, TRBrace, TRBrace>>,
      <<TLBrace, Str("name"), TColon, Str("calculate"), TComma,
        Str("arguments"), TColon>>,                           \* cut short
      CallText(<<Str("foo")>>, <<TLBrace, TRBrace>>) \o <<TLBrace, TRBrace>> }

\* contents that are an object with "name" and "arguments"
CallContents ==
    { CallText(<<Str("calculate")>>, CalcText("multiply", 15, 7)),
      CallText(<<Str("calculate")>>, CalcText("divide", 1, 0)),
      CallText(<<Str("calculate")>>, CalcText("divide", 7, 2)),
      CallText(<<Str("calculate")>>, CalcText("power", 2, 3)),
      CallText(<<Str("calculate")>>, <<Num(5)>>),
      CallText(<<Str("get_weather")>>, <<TLBrace, TRBrace>>),
      CallText(<<Str("get_weather")>>,
               <<TLBrace, Str("location"), TColon, Str("Paris"), TRBrace>>),
      CallText(<<Str("foo")>>, <<TLBrace, TRBrace>>),
      CallText(<<TLit(JNull)>>, <<TLBrace, TRBrace>>),
      CallText(<<TLBracket, Str("calculate"), TRBracket>>, <<TLBrace, TRBrace>>) }

Contents == {<<>>} \cup PlainContents \cup CallContents

\* the contents tried beside a non-empty structured list
ContentsBesideCalls ==
    { <<>>, <<Num(5)>>, CallText(<<Str("calculate")>>, CalcText("multiply", 15, 7)) }

\* an entry of message['tool_calls']: {"function": {"name": .., "arguments": ..}},
\* either key possibly missing
ToolCall(has_name, name, has_args, args) ==
    [has_name |-> has_name, name |-> name, has_arguments |-> has_args, arguments |-> args]
ToolCallPool ==
    { ToolCall(TRUE, Word("calculate"), TRUE, CalcArgs("multiply", 15, 7)),
      ToolCall(TRUE, Word("calculate"), TRUE, CalcArgs("divide", 1, 0)),
      ToolCall(FALSE, JNull, FALSE, JNull) }

SeqsUpTo(S, n) == UNION {[1..m -> S] : m \in 0..n}

\* a decoded 200 response: result['message'] with tool_calls (possibly absent)
\* and content (absent is read as ''); body_empty is the response {}
Result(has_tc, tcs, content, body_empty) ==
    [status |-> "ok", has_tool_calls |-> has_tc, tool_calls |-> tcs,
     content |-> content, body_empty |-> body_empty]
NoResult(status) ==
    [status |-> status, has_tool_calls |-> FALSE, tool_calls |-> <<>>,
     content |-> <<>>, body_empty |-> FALSE]
None == NoResult("none")

Responses ==
    {Result(FALSE, <<>>, c, FALSE) : c \in Contents}
    \cup {Result(TRUE, <<>>, c, FALSE) : c \in Contents}
    \cup {Result(TRUE, tcs, c, FALSE) :
            tcs \in SeqsUpTo(ToolCallPool, MaxCalls) \ {<<>>}, c \in ContentsBesideCalls}
    \cup {Result(FALSE, <<>>, <<>>, TRUE)}

\* what a POST /api/chat ends with
ChatOutcomes == Responses \cup {NoResult("non200"), NoResult("exception")}

----------------------------------------------------------------------------
(* The ConversationLogger *)

\* a log entry; the message of a Tool entry is kept in its parts, the tool
\* name and the result.  The timestamp is not modelled.
Entry(sid, sender, message, tool, result) ==
    [sessionId |-> sid, sender |-> sender, message |-> message,
     tool |-> tool, result |-> result]

\* the log file: absent, a valid JSON array of entries, or a text that is no
\* JSON document (truncated to nothing, or written in part)
Absent == [state |-> "absent", arr |-> <<>>]
ValidFile(entries) == [state |-> "valid", arr |-> entries]
PartialFile == [state |-> "partial", arr |-> <<>>]

SessionIds == {"20261105-aaaaaaaa", "20261105-bbbbbbbb"}
OldEntry == Entry("20261104-cccccccc", "User", "request", JNull, JNull)
InitialDisks == {Absent} \cup {ValidFile([i \in 1..n |-> OldEntry]) : n \in 0..MaxOldEntries}

\* the state of test_ollama.py, which ollama_tool_calling.py never touches
testVars == <<script, prompt_idx, lines, line_idx, full_response, processed>>

mainVars == <<pc, example, response, idx, tool_calls_found, outcomes, content_parsed,
              no_calls_reported, invoked, posts, tool_definitions, session_id, tools,
              requests, testVars>>

\* an HTTP request that was issued: its endpoint, and whether it was answered 200
Req(endpoint, ok) == [endpoint |-> endpoint, ok |-> ok]

\* the mutation of log_message: the session id is generated for each entry
log_message_new_session(sender, message, tool, result) ==
    /\ conversation_log' =
          Append(conversation_log,
                 Entry(IF conversation_log = <<>> THEN session_id
                       ELSE CHOOSE sid \in SessionIds : sid # session_id,
                       sender, message, tool, result))
    /\ lpc' = "open"
    /\ disk_at_call' = disk
    /\ UNCHANGED <<disk, warnings, last_write>>
\* log_message up to the try: build the entry and append it to the list; the
\* write to the file follows in LogOpen* and LogDump*
log_message(sender, message, tool, result) ==
    /\ conversation_log' =
          Append(conversation_log, Entry(session_id, sender, message, tool, result))
    /\ lpc' = "open"
    /\ disk_at_call' = disk
    /\ UNCHANGED <<disk, warnings, last_write>>

\* log_tool_call: one Tool entry made of the name, the arguments and the result
log_tool_call(tool_name, arguments, result) ==
    log_message("Tool", "tool_call", tool_name, result)

\* open(self.log_file, 'w') succeeds: the file exists and is empty
LogOpenOk ==
    /\ lpc = "open"
    /\ disk' = PartialFile
    /\ lpc' = "dump"
    /\ UNCHANGED <<conversation_log, warnings, last_write, disk_at_call>>
    /\ UNCHANGED mainVars

\* the mutation of LogOpenFail: the exception of open leaves log_message
LogOpenFailPropagates ==
    /\ lpc = "open"
    /\ warnings < MaxWriteFailures
    /\ warnings' = warnings + 1
    /\ last_write' = "failed"
    /\ lpc' = "idle"
    /\ pc' = "raised"
    /\ UNCHANGED <<conversation_log, disk, disk_at_call>>
    /\ UNCHANGED <<example, response, idx, tool_calls_found, outcomes, content_parsed,
                   no_calls_reported, invoked, posts, tool_definitions, session_id, tools,
                   requests, testVars>>

\* open raises (permission, missing directory): caught, a warning is printed
LogOpenFail ==
    /\ lpc = "open"
    /\ warnings < MaxWriteFailures
    /\ warnings' = warnings + 1
    /\ last_write' = "failed"
    /\ lpc' = "idle"
    /\ UNCHANGED <<conversation_log, disk, disk_at_call>>
    /\ UNCHANGED mainVars

\* the mutation of DumpedFile: the file is opened for append, not overwritten
DumpedFileAppended(log, before) ==
    IF before.state = "valid" THEN ValidFile(before.arr \o <<log[Len(log)]>>)
    ELSE ValidFile(log)
\* what json.dump leaves in the file when it completes and the file is closed
DumpedFile(log, before) == ValidFile(log)

\* json.dump writes the whole list and the file is closed
LogDumpOk ==
    /\ lpc = "dump"
    /\ disk' = DumpedFile(conversation_log, disk_at_call)
    /\ last_write' = "ok"
    /\ lpc' = "idle"
    /\ UNCHANGED <<conversation_log, warnings, disk_at_call>>
    /\ UNCHANGED mainVars

\* a write of json.dump raises (disk full, I/O error): caught, a warning is
\* printed, the file keeps the part written
LogDumpFail ==
    /\ lpc = "dump"
    /\ warnings < MaxWriteFailures
    /\ disk' = PartialFile
    /\ warnings' = warnings + 1
    /\ last_write' = "failed"
    /\ lpc' = "idle"
    /\ UNCHANGED <<conversation_log, disk_at_call>>
    /\ UNCHANGED mainVars

loggerVars == <<conversation_log, disk, lpc, warnings, last_write, disk_at_call>>

----------------------------------------------------------------------------
(* main *)

Running == pc \notin {"done", "raised"}

\* client.test_connection(): False ends main before anything else is asked
TestConnection ==
    /\ pc = "start" /\ lpc = "idle"
    /\ \E reachable \in BOOLEAN :
          /\ pc' = IF reachable THEN "list" ELSE "done"
          /\ requests' = Append(requests, Req("/api/version", reachable))
    /\ UNCHANGED <<example, response, idx, tool_calls_found, outcomes, content_parsed,
                   no_calls_reported, invoked, posts, tool_definitions, session_id, tools,
                   testVars>>
    /\ UNCHANGED loggerVars

\* client.list_models(): no data or no model ends main
ListModels ==
    /\ pc = "list" /\ lpc = "idle"
    /\ \E has_models \in BOOLEAN :
          /\ pc' = IF has_models THEN "chat" ELSE "done"
          /\ requests' = Append(requests, Req("/api/tags", has_models))
    /\ UNCHANGED <<example, response, idx, tool_calls_found, outcomes, content_parsed,
                   no_calls_reported, invoked, posts, tool_definitions, session_id, tools,
                   testVars>>
    /\ UNCHANGED loggerVars

\* chat_with_tools up to the request: build the tool definitions and log the
\* User entry.  The record of the previous example's handling is cleared.
ChatLogUser ==
    /\ pc = "chat" /\ lpc = "idle"
    /\ tool_definitions' = BuildToolDefinitions(tools)
    /\ log_message("User", "request", JNull, JNull)
    /\ pc' = "post"
    /\ response' = None /\ idx' = 1 /\ tool_calls_found' = FALSE
    /\ outcomes' = <<>> /\ invoked' = <<>> /\ posts' = 0
    /\ content_parsed' = FALSE /\ no_calls_reported' = FALSE
    /\ UNCHANGED <<example, session_id, tools, requests,
                   testVars>>

\* the mutation of ChatLogSender: failures are logged as Assistant entries
ChatLogSenderAssistant(status) == "Assistant"
\* the entry chat_with_tools logs for what the request ended with
ChatLogSender(status) == IF status = "ok" THEN "Assistant" ELSE "System"
ChatLogMessage(status) ==
    CASE status = "ok" -> "response"
      [] status = "non200" -> "Chat failed with status"
      [] OTHER -> "Chat request failed"

\* chat_with_tools from the request on: one POST, one log entry, the decoded
\* result or None is returned to main
ChatPost ==
    /\ pc = "post" /\ lpc = "idle"
    /\ posts' = posts + 1
    /\ \E r \in ChatOutcomes :
          /\ response' = IF r.status = "ok" THEN r ELSE None
          /\ log_message(ChatLogSender(r.status), ChatLogMessage(r.status), JNull, JNull)
          /\ requests' = Append(requests, Req("/api/chat", r.status = "ok"))
    /\ pc' = "handle"
    /\ UNCHANGED <<example, idx, tool_calls_found, outcomes, content_parsed,
                   no_calls_reported, invoked, tool_definitions, session_id, tools,
                   testVars>>

\* `if response:` is false for None and for an empty dict
HasResponse(r) == r.status = "ok" /\ ~r.body_empty
\* `'tool_calls' in message and message['tool_calls']`
HasStructuredCalls(r) == r.has_tool_calls /\ r.tool_calls # <<>>

\* after one example: the second example, then the end of main
NextExample ==
    IF example = 1 THEN example' = 2 /\ pc' = "chat"
    ELSE example' = example /\ pc' = "done"

\* the mutation of ShouldParseContent: the content is parsed in any case
ShouldParseContentAlways(content, found) == content # <<>>
\* `if content and not tool_calls_found`
ShouldParseContent(content, found) == content # <<>> /\ ~found

Tagged(path, outs) == [i \in 1..Len(outs) |-> [path |-> path, o |-> outs[i]]]
InvokedBy(outs) ==
    LET called == {i \in 1..Len(outs) : outs[i].kind \in {"result", "error"}} IN
    [i \in 1..Cardinality(called) |->
        outs[CHOOSE j \in called : Cardinality({m \in called : m < j}) = i - 1].name.s[1]]

\* the content block and the "no tool calls" report that end the handling of
\* a response, given the flag the structured loop left
FinishHandling(found) ==
    LET try == ShouldParseContent(response.content, found)
        r == IF try THEN ExtractFromContent(response.content)
             ELSE ContentResult(FALSE, FALSE, <<>>)
        found2 == found \/ r.found
    IN  /\ content_parsed' = try
        /\ outcomes' = outcomes \o Tagged("content", r.outcomes)
        /\ invoked' = invoked \o InvokedBy(r.outcomes)
        /\ tool_calls_found' = found2
        /\ IF r.raised
           THEN pc' = "raised" /\ UNCHANGED <<example, no_calls_reported>>
           ELSE no_calls_reported' = ~found2 /\ NextExample

\* `if response:` and the test for structured calls
HandleResponse ==
    /\ pc = "handle" /\ lpc = "idle"
    /\ IF ~HasResponse(response)
       THEN /\ NextExample
            /\ UNCHANGED <<idx, tool_calls_found, outcomes, content_parsed,
                           no_calls_reported, invoked>>
       ELSE IF HasStructuredCalls(response)
       THEN /\ pc' = "loop" /\ idx' = 1 /\ tool_calls_found' = FALSE
            /\ UNCHANGED <<example, outcomes, content_parsed, no_calls_reported, invoked>>
       ELSE /\ FinishHandling(FALSE)
            /\ UNCHANGED idx
    /\ UNCHANGED <<response, posts, tool_definitions, session_id, tools, requests,
                   testVars>>
    /\ UNCHANGED loggerVars

\* the result logged for a dispatched structured call
LoggedResult(o) ==
    CASE o.kind = "result" -> o.val
      [] o.kind = "error" -> JStr(<<"Error: ">> \o o.msg)
      [] OTHER -> JStr(o.msg)

\* one iteration of `for tool_call in message['tool_calls']`
LoopIter ==
    /\ pc = "loop" /\ lpc = "idle"
    /\ idx <= Len(response.tool_calls)
    /\ LET tool_call == response.tool_calls[idx]
           func_name == IF tool_call.has_name THEN tool_call.name ELSE JNull
           func_args == IF tool_call.has_arguments THEN tool_call.arguments ELSE EmptyDict
           o == Dispatch(func_name, func_args)
       IN  /\ outcomes' = outcomes \o Tagged("structured", <<o>>)
           /\ invoked' = invoked \o InvokedBy(<<o>>)
           /\ IF o.kind = "uncaught"
              THEN /\ pc' = "raised"
                   /\ UNCHANGED <<idx, tool_calls_found>>
                   /\ UNCHANGED loggerVars
              ELSE /\ log_tool_call(func_name, func_args, LoggedResult(o))
                   /\ tool_calls_found' = TRUE
                   /\ idx' = idx + 1
                   /\ pc' = "loop"
    /\ UNCHANGED <<example, response, content_parsed, no_calls_reported, posts,
                   tool_definitions, session_id, tools, requests,
                   testVars>>

\* the loop is over: the content block and the report
LoopEnd ==
    /\ pc = "loop" /\ lpc = "idle"
    /\ idx > Len(response.tool_calls)
    /\ FinishHandling(tool_calls_found)
    /\ UNCHANGED <<response, idx, posts, tool_definitions, session_id, tools, requests,
                   testVars>>
    /\ UNCHANGED loggerVars

Init ==
    /\ pc = "start" /\ example = 1 /\ response = None /\ idx = 1
    /\ tool_calls_found = FALSE /\ outcomes = <<>> /\ content_parsed = FALSE
    /\ no_calls_reported = FALSE /\ invoked = <<>> /\ posts = 0
    /\ tool_definitions = <<>>
    /\ conversation_log = <<>>
    /\ disk \in InitialDisks
    /\ lpc = "idle" /\ warnings = 0 /\ last_write = "none"
    /\ disk_at_call = disk
    /\ session_id \in SessionIds
    /\ tools = <<CalculateFn, GetWeatherFn>>
    /\ script = "ollama_tool_calling" /\ requests = <<>>
    /\ prompt_idx = 1 /\ lines = <<>> /\ line_idx = 1
    /\ full_response = <<>> /\ processed = <<>>

Next ==
    \/ TestConnection
    \/ ListModels
    \/ ChatLogUser
    \/ ChatPost
    \/ HandleResponse
    \/ LoopIter
    \/ LoopEnd
    \/ Running /\ LogOpenOk
    \/ Running /\ LogOpenFail
    \/ Running /\ LogDumpOk
    \/ Running /\ LogDumpFail

Spec == Init /\ [][Next]_vars

----------------------------------------------------------------------------
(* Claims about extraction and dispatch *)

\* the handling of the response held in `response` is over
HandlingOver == (pc = "chat" /\ example = 2) \/ pc = "done"
\* the response has no structured call and a non-empty content
ContentOnly(r) == HasResponse(r) /\ ~HasStructuredCalls(r) /\ r.content # <<>>
\* the content is one JSON object with a "name" and an "arguments" key
IsEmbeddedCall(content) ==
    LET r == json_loads(content) IN
    /\ r.ok
    /\ r.val.k = "obj"
    /\ \E i \in 1..Len(r.val.keys) : r.val.keys[i] = <<"name">>
    /\ \E i \in 1..Len(r.val.keys) : r.val.keys[i] = <<"arguments">>
Outs(kind) == {i \in 1..Len(outcomes) : outcomes[i].o.kind = kind}

\* C1: for a response without structured calls and with any non-empty content,
\* the extraction from the content never raises: either one call is read from
\* it, or none is and the "no tool calls" report follows.
C1_ExtractionNeverRaises ==
    (ContentOnly(response) /\ pc \notin {"post", "handle"}) =>
        /\ ~(pc = "raised" /\ outcomes = <<>>)
        /\ (HandlingOver /\ outcomes = <<>>) => no_calls_reported

\* C2: a response with a non-empty structured list of n entries has exactly
\* its n entries dispatched, in order, all by the structured path, and its
\* content is never parsed, whatever it is.
C2_StructuredTakesPrecedence ==
    (HasResponse(response) /\ HasStructuredCalls(response)) =>
        /\ ~content_parsed
        /\ pc # "raised"
        /\ Len(outcomes) <= Len(response.tool_calls)
        /\ \A i \in 1..Len(outcomes) :
              LET c == response.tool_calls[i] IN
              /\ outcomes[i].path = "structured"
              /\ outcomes[i].o.name = (IF c.has_name THEN c.name ELSE JNull)
              /\ outcomes[i].o.args = (IF c.has_arguments THEN c.arguments ELSE EmptyDict)
        /\ HandlingOver =>
              /\ Len(outcomes) = Len(response.tool_calls)
              /\ tool_calls_found /\ ~no_calls_reported

\* a response of two structured calls whose content is itself a call was handled
C2_Witness ==
    /\ HandlingOver
    /\ HasStructuredCalls(response)
    /\ Len(response.tool_calls) = 2
    /\ IsEmbeddedCall(response.content)
    /\ Len(outcomes) = 2

\* C3: for a response without structured calls and with a non-empty content,
\* exactly one call is read, its name and arguments those of the content, if
\* and only if the content is one JSON object with both a "name" and an
\* "arguments" key; otherwise no call is read and nothing is dispatched.
C3_EmbeddedCallIffObjectWithBothKeys ==
    (ContentOnly(response) /\ (HandlingOver \/ pc = "raised")) =>
        IF IsEmbeddedCall(response.content)
        THEN LET d == json_loads(response.content).val IN
             /\ Len(outcomes) = 1
             /\ outcomes[1].path = "content"
             /\ outcomes[1].o.name = Lookup(d, <<"name">>)
             /\ outcomes[1].o.args = Lookup(d, <<"arguments">>)
        ELSE outcomes = <<>> /\ invoked = <<>> /\ ~tool_calls_found

\* an object lacking "arguments" was handled: no call, and the report
C3_Witness ==
    /\ HandlingOver
    /\ ContentOnly(response)
    /\ json_loads(response.content).ok
    /\ json_loads(response.content).val.k = "obj"
    /\ HasKey(json_loads(response.content).val, <<"name">>)
    /\ ~IsEmbeddedCall(response.content)
    /\ no_calls_reported

\* C4: every call read, by either path, whose name is not a key of the
\* registry (a missing name too) ends not-found with that name, without a
\* function being invoked and without an exception.
C4_UnknownNameIsNotFound ==
    \A i \in 1..Len(outcomes) :
        LET o == outcomes[i].o IN
        ~Registered(o.name) =>
            /\ o.kind = "notfound"
            /\ o.msg = <<"Function not found: ">> \o Format(o.name)
            /\ pc # "raised"
            /\ Len(invoked) <= Len(outcomes) - 1

\* C5: a registered function whose invocation raises ends as an error that
\* carries the message of the exception, and the handling goes on: the later
\* entries of a structured list are dispatched too; a call that succeeds ends
\* with the value the function returned (calculate multiply 15, 7: 105).
C5_InvocationErrorsAreCaptured ==
    /\ \A i \in 1..Len(outcomes) :
          LET o == outcomes[i].o IN
          Registered(o.name) =>
             /\ o.kind \in {"result", "error"}
             /\ (o.name = Word("calculate") /\ o.args = CalcArgs("multiply", 15, 7))
                   => (o.kind = "result" /\ o.val = JNum(105))
             /\ (o.name = Word("calculate") /\ o.args = CalcArgs("divide", 1, 0))
                   => (o.kind = "error" /\ o.msg = <<"Cannot divide by zero">>)
             /\ (o.name = Word("calculate") /\ o.args = CalcArgs("power", 2, 3))
                   => (o.kind = "error" /\ o.msg = <<"Unknown operation: ", "power">>)
             /\ (o.args.k # "obj" \/ o.args = EmptyDict) => o.kind = "error"
    /\ Outs("error") # {} => pc # "raised"
    /\ (HandlingOver /\ Outs("error") # {} /\ HasStructuredCalls(response)) =>
          Len(outcomes) = Len(response.tool_calls)
    /\ (HandlingOver /\ Outs("error") # {}) => (tool_calls_found /\ ~no_calls_reported)

\* a structured list whose first call divided by zero and whose second
\* multiplied 15 by 7 was handled to its end
C5_Witness ==
    /\ HandlingOver
    /\ Len(outcomes) = 2
    /\ outcomes[1].path = "structured"
    /\ outcomes[1].o.kind = "error"
    /\ outcomes[2].o.kind = "result"
    /\ outcomes[2].o.val = JNum(105)

----------------------------------------------------------------------------
(* Claims about the ConversationLogger *)

\* the entries of the log_message calls that have returned
ReturnedEntries ==
    IF lpc = "idle" THEN conversation_log
    ELSE SubSeq(conversation_log, 1, Len(conversation_log) - 1)
FileLen(f) == IF f.state = "valid" THEN Len(f.arr) ELSE 0

\* C6 as claimed: every log call leaves a valid JSON array on disk, one entry
\* longer than the array on disk before the call, also over a file of an
\* earlier run and after a failed write.
C6_DiskGrowsByOne ==
    (lpc = "idle" /\ conversation_log # <<>>) =>
        /\ disk.state = "valid"
        /\ Len(disk.arr) = FileLen(disk_at_call) + 1

\* C6 as amended: a log call whose write succeeds leaves on disk a valid JSON
\* array that is exactly the list in memory; it is one entry longer than the
\* array on disk before the call when that array held the entries of this
\* logger's earlier calls.
C6_DiskIsTheWholeLog ==
    (lpc = "idle" /\ last_write = "ok") =>
        /\ disk = ValidFile(conversation_log)
        /\ disk_at_call = ValidFile(SubSeq(conversation_log, 1, Len(conversation_log) - 1))
              => Len(disk.arr) = Len(disk_at_call.arr) + 1

\* the first entry of a run was written over the two entries of an earlier run
C6_Witness ==
    /\ lpc = "idle" /\ last_write = "ok"
    /\ disk_at_call.state = "valid" /\ Len(disk_at_call.arr) = 2
    /\ Len(conversation_log) = 1
    /\ disk = ValidFile(conversation_log)

\* C7: wherever the process stops, between the open and the end of the dump
\* too, the log file is a valid JSON array holding every entry of the
\* log_message calls that returned (no file yet, before the first call ends).
C7_FileValidWheneverKilled ==
    \/ disk.state = "absent" /\ ReturnedEntries = <<>>
    \/ /\ disk.state = "valid"
       /\ Len(ReturnedEntries) <= Len(disk.arr)
       /\ \A i \in 1..Len(ReturnedEntries) : disk.arr[i] = ReturnedEntries[i]

\* C8: a failed write of the log file is caught: log_message returns, the
\* entry stays in the list in memory, a warning is printed, and main is where
\* a successful write would have left it.
C8_WriteFailureIsNotFatal ==
    [][warnings' # warnings =>
          /\ warnings' = warnings + 1
          /\ lpc' = "idle"
          /\ conversation_log' = conversation_log
          /\ conversation_log # <<>>
          /\ UNCHANGED mainVars]_vars

\* main ran to its end after a write failed, with a structured call handled
C8_Witness ==
    /\ pc = "done"
    /\ warnings = 1
    /\ HasStructuredCalls(response)
    /\ Len(conversation_log) >= 5

\* C10 as claimed: every error of a run, a failed chat request or a tool not
\* found or failing on either path, is a System entry of the log.
C10_EveryErrorIsASystemEntry ==
    /\ (pc = "handle" /\ response = None) =>
          conversation_log[Len(conversation_log)].sender = "System"
    /\ \A i \in Outs("notfound") \cup Outs("error") :
          \E j \in 1..Len(conversation_log) :
             /\ conversation_log[j].sender = "System"
             /\ conversation_log[j].result = LoggedResult(outcomes[i].o)

\* the log entries made since the chat request of this example was answered
EntriesSinceAnswer ==
    LET answers == {j \in 1..Len(conversation_log) :
                       conversation_log[j].sender \in {"Assistant", "System"}}
        last == CHOOSE j \in answers : \A m \in answers : m <= j
    IN  SubSeq(conversation_log, last + 1, Len(conversation_log))

\* C10 as amended: a failed chat request is one System entry; a tool not
\* found or failing on the structured path is a Tool entry whose result is
\* the error message; on the content path it is printed only, no entry is
\* made; nothing is retried: one POST per example, one dispatch per call.
C10_ErrorsAreLoggedByKind ==
    /\ posts <= 1
    /\ (pc = "handle") =>
          /\ posts = 1
          /\ conversation_log[Len(conversation_log)].sender =
                (IF response = None THEN "System" ELSE "Assistant")
          /\ conversation_log[Len(conversation_log) - 1].sender = "User"
    /\ (Len(outcomes) > 0 /\ outcomes[1].path = "structured") =>
          /\ Len(EntriesSinceAnswer) = Len(outcomes)
          /\ \A i \in 1..Len(outcomes) :
                /\ EntriesSinceAnswer[i].sender = "Tool"
                /\ EntriesSinceAnswer[i].tool = outcomes[i].o.name
                /\ EntriesSinceAnswer[i].result = LoggedResult(outcomes[i].o)
    /\ (Len(outcomes) > 0 /\ outcomes[1].path = "content") =>
          /\ Len(outcomes) = 1
          /\ EntriesSinceAnswer = <<>>
    /\ Len(invoked) <= Len(outcomes)
    /\ HasResponse(response) /\ HasStructuredCalls(response)
          => Len(outcomes) <= Len(response.tool_calls)

\* the first chat request failed and the second example had a structured call
\* fail: the log holds a System entry and, last, the Tool entry of the error
C10_Witness ==
    /\ pc = "done"
    /\ \E j \in 1..Len(conversation_log) : conversation_log[j].sender = "System"
    /\ Len(outcomes) = 2
    /\ outcomes[2].path = "structured"
    /\ outcomes[2].o.kind = "error"
    /\ conversation_log[Len(conversation_log)].sender = "Tool"

----------------------------------------------------------------------------
(* The tool schema builder on any list of functions *)

PyTypes == {"str", "int", "float", "bool", "list"}
ParamNames == <<"x", "y">>
\* the __annotations__ of a function of n parameters, with or without a
\* return annotation
AnnotationLists ==
    UNION {
        {[i \in 1..(n + r) |-> IF i <= n THEN Ann(ParamNames[i], ts[i])
                               ELSE Ann("return", "float")] :
            ts \in [1..n -> PyTypes], r \in {0, 1}} : n \in 0..Len(ParamNames)}
FnPool ==
    {Fn("f", Word("doc of f"), anns) : anns \in AnnotationLists}
    \cup {Fn("g", JNull, <<Ann("x", "int"), Ann("return", "list")>>),
          Fn("h", JStr(<<>>), <<>>)}

SchemaInit ==
    /\ pc = "schema" /\ example = 1 /\ response = None /\ idx = 1
    /\ tool_calls_found = FALSE /\ outcomes = <<>> /\ content_parsed = FALSE
    /\ no_calls_reported = FALSE /\ invoked = <<>> /\ posts = 0
    /\ tool_definitions = <<>>
    /\ conversation_log = <<>>
    /\ disk = Absent
    /\ lpc = "idle" /\ warnings = 0 /\ last_write = "none"
    /\ disk_at_call = disk
    /\ session_id = "20261105-aaaaaaaa"
    /\ tools \in SeqsUpTo(FnPool, MaxTools)
    /\ script = "ollama_tool_calling" /\ requests = <<>>
    /\ prompt_idx = 1 /\ lines = <<>> /\ line_idx = 1
    /\ full_response = <<>> /\ processed = <<>>

\* chat_with_tools builds the tool definitions of the functions it is given
SchemaBuild ==
    /\ pc = "schema"
    /\ tool_definitions' = BuildToolDefinitions(tools)
    /\ pc' = "built"
    /\ UNCHANGED <<example, response, idx, tool_calls_found, outcomes, content_parsed,
                   no_calls_reported, invoked, posts, session_id, tools, requests>>
    /\ UNCHANGED testVars
    /\ UNCHANGED loggerVars

SchemaNext == SchemaBuild
SchemaSpec == SchemaInit /\ [][SchemaNext]_vars

JsonTypeTags == {"string", "integer", "number", "boolean"}
\* the type tag the rule of the schema builder gives an annotation
ExpectedTag(type) ==
    IF type = "str" THEN "string"
    ELSE IF type = "int" THEN "integer"
    ELSE IF type = "float" THEN "number"
    ELSE IF type = "bool" THEN "boolean"
    ELSE "string"
ReturnAnnotations(fn) ==
    {j \in 1..Len(fn.annotations) : fn.annotations[j].param = "return"}

\* C9: the tool definitions are one per function, in the order given; each
\* has as many parameters as the function has annotations, the return
\* annotation not counted, in order, each required and tagged string,
\* integer, number or boolean by the rule str, int, float, bool (else string).
C9_SchemaFollowsAnnotations ==
    pc = "built" =>
        /\ Len(tool_definitions) = Len(tools)
        /\ \A i \in 1..Len(tools) :
              LET fn == tools[i]
                  params == tool_definitions[i].function.parameters
                  n == Len(fn.annotations) - Cardinality(ReturnAnnotations(fn)) IN
              /\ tool_definitions[i].function.name = fn.name
              /\ Len(params.properties) = n
              /\ Len(params.required) = n
              /\ \A j \in 1..n :
                    /\ fn.annotations[j].param # "return"
                    /\ params.properties[j].name = fn.annotations[j].param
                    /\ params.required[j] = fn.annotations[j].param
                    /\ params.properties[j].type = ExpectedTag(fn.annotations[j].type)
                    /\ params.properties[j].type \in JsonTypeTags

\* two functions were given, the second with a bool and a list parameter and
\* a return annotation
C9_Witness ==
    /\ pc = "built"
    /\ Len(tools) = 2
    /\ tools[1] # tools[2]
    /\ tools[2].annotations =
          <<Ann("x", "bool"), Ann("y", "list"), Ann("return", "float")>>
    /\ Len(tool_definitions[2].function.parameters.properties) = 2

-----------------------------------------------------------------------------
(* test_ollama.py *)

\* the longest response body a streaming request is answered with
MaxLines == 3
\* len(test_prompts)
NumPrompts == 3

\* A line of the response body as iter_lines yields it: bytes that decode as
\* UTF-8 or not, and the tokens of the decoded text.
Line(decodes, toks) == [decodes |-> decodes, toks |-> toks]

\* the text of {"message": {"role": "assistant", "content": <content>}<rest>}
ChunkText(contentToks, rest) ==
    <<TLBrace, Str("message"), TColon,
      TLBrace, Str("role"), TColon, Str("assistant"), TComma,
               Str("content"), TColon>> \o contentToks \o <<TRBrace>>
        \o rest \o <<TRBrace>>
DoneText(b) == <<TComma, Str("done"), TColon, TLit(JBool(b))>>

EmptyLine == Line(TRUE, <<>>)
\* a line cut inside its object
PartialLine == Line(TRUE, <<TLBrace, Str("message"), TColon, TLBrace, Str("content")>>)
\* a line cut inside a multi-byte character of its content
PartialCharLine == Line(FALSE, <<TLBrace, Str("message"), TColon, TJunk>>)
NullLine == Line(TRUE, <<TLit(JNull)>>)
NoContentLine ==
    Line(TRUE, <<TLBrace, Str("message"), TColon,
                 TLBrace, Str("role"), TColon, Str("assistant"), TRBrace, TRBrace>>)
StreamLinePool ==
    { EmptyLine, PartialLine, PartialCharLine, NullLine, NoContentLine,
      Line(TRUE, ChunkText(<<Str("a")>>, <<>>)),
      Line(TRUE, ChunkText(<<Str("b")>>, DoneText(FALSE))),
      Line(TRUE, ChunkText(<<Str("c")>>, DoneText(TRUE))) }

\* One iteration of `for line in response.iter_lines()` on a line, with
\* full_response as it stands: how the iteration ends ("next", "break" or
\* "raise" for an exception the loop does not catch) and full_response after.
Iteration(end, full) == [end |-> end, full |-> full]
\* `if chunk.get('done', False): break`
DoneTest(chunk, full) ==
    IF chunk.k # "obj" THEN Iteration("raise", full)
    ELSE IF HasKey(chunk, <<"done">>) /\ Truthy(Lookup(chunk, <<"done">>))
         THEN Iteration("break", full)
         ELSE Iteration("next", full)
ProcessLine(line, full) ==
    IF line.decodes /\ line.toks = <<>> THEN Iteration("next", full)
    ELSE IF ~line.decodes THEN Iteration("raise", full)
    ELSE LET p == json_loads(line.toks)
             chunk == p.val IN
    IF ~p.ok THEN Iteration("next", full)
    ELSE IF ~Iterable(chunk) THEN Iteration("raise", full)
    ELSE IF ~Contains(chunk, "message") THEN DoneTest(chunk, full)
    ELSE IF chunk.k # "obj" THEN Iteration("raise", full)
    ELSE LET message == Lookup(chunk, <<"message">>) IN
    IF ~Iterable(message) THEN Iteration("raise", full)
    ELSE IF ~Contains(message, "content") THEN DoneTest(chunk, full)
    ELSE IF message.k # "obj" THEN Iteration("raise", full)
    ELSE LET content == Lookup(message, <<"content">>) IN
    IF content.k # "str" THEN Iteration("raise", full)
    ELSE DoneTest(chunk, full \o content.s)

toolVars == <<example, response, idx, tool_calls_found, outcomes, content_parsed,
              no_calls_reported, invoked, posts, tool_definitions, session_id, tools>>

\* client.test_connection(): False ends main
test_connection ==
    /\ pc = "t_connect"
    /\ \E reachable \in BOOLEAN :
          /\ pc' = IF reachable THEN "t_list" ELSE "done"
          /\ requests' = Append(requests, Req("/api/version", reachable))
    /\ UNCHANGED <<toolVars, loggerVars, testVars>>

\* client.list_models(): no data or no model ends main
list_models ==
    /\ pc = "t_list"
    /\ \E has_models \in BOOLEAN :
          /\ pc' = IF has_models THEN "t_prompts" ELSE "done"
          /\ requests' = Append(requests, Req("/api/tags", has_models))
    /\ UNCHANGED <<toolVars, loggerVars, testVars>>

\* the mutation of test_chat: a prompt that fails ends main
test_chat_failure_ends_main ==
    /\ pc = "t_prompts"
    /\ \E success \in BOOLEAN :
          /\ requests' = Append(requests, Req("/api/chat", success))
          /\ prompt_idx' = prompt_idx + 1
          /\ pc' = IF ~success THEN "done"
                   ELSE IF prompt_idx < NumPrompts THEN "t_prompts" ELSE "t_stream"
    /\ UNCHANGED <<toolVars, loggerVars, script, lines, line_idx, full_response, processed>>
\* one iteration of `for prompt in test_prompts`: client.test_chat, and the
\* break when it returns False
test_chat ==
    /\ pc = "t_prompts"
    /\ \E success \in BOOLEAN :
          /\ requests' = Append(requests, Req("/api/chat", success))
          /\ prompt_idx' = prompt_idx + 1
          /\ pc' = IF success /\ prompt_idx < NumPrompts THEN "t_prompts" ELSE "t_stream"
    /\ UNCHANGED <<toolVars, loggerVars, script, lines, line_idx, full_response, processed>>

\* client.test_streaming_chat up to the loop: the request, and the lines of a
\* 200 response
test_streaming_chat ==
    /\ pc = "t_stream"
    /\ \/ /\ requests' = Append(requests, Req("/api/chat stream", FALSE))
          /\ pc' = "done"
          /\ UNCHANGED lines
       \/ /\ requests' = Append(requests, Req("/api/chat stream", TRUE))
          /\ pc' = "t_lines"
          /\ lines' \in SeqsUpTo(StreamLinePool, MaxLines)
    /\ line_idx' = 1 /\ full_response' = <<>> /\ processed' = <<>>
    /\ UNCHANGED <<toolVars, loggerVars, script, prompt_idx>>

\* one iteration of `for line in response.iter_lines()`
StreamLine ==
    /\ pc = "t_lines"
    /\ line_idx <= Len(lines)
    /\ LET it == ProcessLine(lines[line_idx], full_response) IN
          /\ full_response' = it.full
          /\ processed' = Append(processed, line_idx)
          /\ line_idx' = line_idx + 1
          /\ pc' = CASE it.end = "next" -> "t_lines"
                     [] it.end = "break" -> "done"
                     [] OTHER -> "raised"
    /\ UNCHANGED <<toolVars, loggerVars, script, prompt_idx, lines, requests>>

\* the body is exhausted: test_streaming_chat returns True and main ends
StreamEnd ==
    /\ pc = "t_lines"
    /\ line_idx > Len(lines)
    /\ pc' = "done"
    /\ UNCHANGED <<toolVars, loggerVars, testVars, requests>>

TestInit ==
    /\ pc = "t_connect" /\ example = 1 /\ response = None /\ idx = 1
    /\ tool_calls_found = FALSE /\ outcomes = <<>> /\ content_parsed = FALSE
    /\ no_calls_reported = FALSE /\ invoked = <<>> /\ posts = 0
    /\ tool_definitions = <<>>
    /\ conversation_log = <<>>
    /\ disk = Absent
    /\ lpc = "idle" /\ warnings = 0 /\ last_write = "none"
    /\ disk_at_call = disk
    /\ session_id = "20261105-aaaaaaaa"
    /\ tools = <<>>
    /\ script = "test_ollama" /\ requests = <<>>
    /\ prompt_idx = 1 /\ lines = <<>> /\ line_idx = 1
    /\ full_response = <<>> /\ processed = <<>>

TestNext ==
    \/ test_connection
    \/ list_models
    \/ test_chat
    \/ test_streaming_chat
    \/ StreamLine
    \/ StreamEnd

TestSpec == TestInit /\ [][TestNext]_vars

\* either script is run
ScriptsInit == Init \/ TestInit
ScriptsNext == Next \/ TestNext
ScriptsSpec == ScriptsInit /\ [][ScriptsNext]_vars

-----------------------------------------------------------------------------
(* The streaming loop *)

\* the streaming request was answered 200 and its loop has been left
StreamOver ==
    /\ script = "test_ollama"
    /\ pc \in {"done", "raised"}
    /\ requests # <<>>
    /\ requests[Len(requests)] = Req("/api/chat stream", TRUE)

\* what a line is, read from its text alone
Decoded(line) == IF line.decodes THEN json_loads(line.toks) ELSE [ok |-> FALSE, val |-> JNull]
IsWellFormedChunk(line) ==
    LET d == Decoded(line) IN
    /\ line.toks # <<>> /\ d.ok /\ d.val.k = "obj"
    /\ HasKey(d.val, <<"message">>)
    /\ Lookup(d.val, <<"message">>).k = "obj"
    /\ HasKey(Lookup(d.val, <<"message">>), <<"content">>)
    /\ Lookup(Lookup(d.val, <<"message">>), <<"content">>).k = "str"
IsCompletionChunk(line) ==
    LET d == Decoded(line) IN
    /\ line.toks # <<>> /\ d.ok /\ d.val.k = "obj"
    /\ HasKey(d.val, <<"done">>)
    /\ Lookup(d.val, <<"done">>) = JBool(TRUE)
ChunkContent(line) == Lookup(Lookup(Decoded(line).val, <<"message">>), <<"content">>).s

\* the last line the loop is to reach: the first completion chunk, or the
\* last line when there is none
LastLine(ls) ==
    IF \E i \in 1..Len(ls) : IsCompletionChunk(ls[i])
    THEN CHOOSE i \in 1..Len(ls) :
            IsCompletionChunk(ls[i]) /\ \A j \in 1..(i-1) : ~IsCompletionChunk(ls[j])
    ELSE Len(ls)
\* the contents of the well-formed chunks among the first n lines, in order
RECURSIVE ContentUpTo(_, _)
ContentUpTo(ls, n) ==
    IF n = 0 THEN <<>>
    ELSE ContentUpTo(ls, n - 1)
            \o (IF IsWellFormedChunk(ls[n]) THEN ChunkContent(ls[n]) ELSE <<>>)

\* C11: for every sequence of response lines, the streaming loop runs on the
\* lines in order up to the first chunk with done true and on none after it,
\* is not aborted by a partial or malformed line, and accumulates the content
\* of every well-formed chunk up to the completion chunk.
C11_StreamSkipsMalformedLines ==
    StreamOver =>
        /\ pc = "done"
        /\ processed = [i \in 1..LastLine(lines) |-> i]
        /\ full_response = ContentUpTo(lines, LastLine(lines))

-----------------------------------------------------------------------------
(* The two mains *)

MainOver == pc \in {"done", "raised"}
\* the requests of the given endpoint, as positions in the history
RequestsTo(endpoint) == {k \in 1..Len(requests) : requests[k].endpoint = endpoint}
FailedChats == {k \in RequestsTo("/api/chat") : ~requests[k].ok}

\* C12: in both scripts' main, a failed connectivity probe ends main at once
\* and normally, with no model-list request, no chat request and no log entry
\* after it; a failed chat request ends only its own operation: in
\* ollama_tool_calling.py Example 2 still issues its chat request after
\* Example 1's failed, in test_ollama.py the streaming request is the next
\* request after a failed prompt.
C12_ProbeFailureHaltsChatFailureDoesNot ==
    /\ requests # <<>> => requests[1].endpoint = "/api/version"
    /\ (requests # <<>> /\ ~requests[1].ok) =>
          /\ pc = "done"
          /\ Len(requests) = 1
          /\ conversation_log = <<>> /\ lpc = "idle" /\ last_write = "none"
    /\ (script = "ollama_tool_calling" /\ MainOver /\ 3 \in FailedChats) =>
          /\ Len(requests) = 4
          /\ requests[4].endpoint = "/api/chat"
          /\ example = 2
    /\ (script = "test_ollama" /\ MainOver) =>
          \A k \in FailedChats :
              /\ Len(requests) = k + 1
              /\ requests[k + 1].endpoint = "/api/chat stream"

\* Example 1's chat request failed and Example 2's was answered and handled
C12_Witness ==
    /\ script = "ollama_tool_calling" /\ pc = "done"
    /\ Len(requests) = 4
    /\ requests[3] = Req("/api/chat", FALSE)
    /\ requests[4] = Req("/api/chat", TRUE)
    /\ Len(conversation_log) >= 4

-----------------------------------------------------------------------------
(* The entries chat_with_tools logs *)

IsChatEntry(e) == e.sender # "Tool"
ChatEntries == SelectSeq(conversation_log, IsChatEntry)
\* the chat requests issued so far, in order
IsChatRequest(r) == r.endpoint = "/api/chat"
ChatRequests == SelectSeq(requests, IsChatRequest)

\* C13: every call of chat_with_tools appends exactly two entries, next to
\* each other: a User entry, logged before the request is issued, then one
\* entry that is Assistant when the request was answered 200 and System when
\* it was not; every entry of the run carries the session id of the logger.
C13_UserThenAnswerPerCall ==
    /\ Len(ChatEntries) = 2 * Len(ChatRequests) + (IF pc = "post" THEN 1 ELSE 0)
    /\ \A k \in 1..Len(ChatRequests) :
          /\ ChatEntries[2 * k - 1].sender = "User"
          /\ ChatEntries[2 * k].sender =
                (IF ChatRequests[k].ok THEN "Assistant" ELSE "System")
    /\ pc = "post" => conversation_log[Len(conversation_log)].sender = "User"
    /\ \A i \in 1..Len(conversation_log) :
          /\ conversation_log[i].sessionId = session_id
          /\ (conversation_log[i].sender = "User" /\ i < Len(conversation_log)) =>
                conversation_log[i + 1].sender \in {"Assistant", "System"}
          /\ conversation_log[i].sender \in {"Assistant", "System"} =>
                (i > 1 /\ conversation_log[i - 1].sender = "User")

\* chat_with_tools was called twice, answered 200 with tool calls that were
\* logged the first time and not answered 200 the second
C13_Witness ==
    /\ script = "ollama_tool_calling" /\ pc = "done"
    /\ Len(ChatRequests) = 2
    /\ ChatRequests[1].ok /\ ~ChatRequests[2].ok
    /\ Len(ChatEntries) = 4
    /\ Len(conversation_log) > 4
    /\ conversation_log[Len(conversation_log)].sender = "System"

====
